---------------------------- MODULE Spec2Model ----------------------------
(***************************************************************************)
(* The lexer of davidrjenni/sc (package lexer) as a state machine.         *)
(*                                                                         *)
(* The producer goroutine (Lexer.run) walks the chain of state functions   *)
(* lexSource, lexIdent, lexLeftBrace, ... and hands every token to the     *)
(* consumer over the unbuffered channel Lexer.Tokens.  The character       *)
(* cursor is Go's text/scanner.Scanner in the mode scanner.Init leaves it  *)
(* in (GoTokens, GoWhitespace); it is modelled here by what Scan, Peek,    *)
(* TokenText and Position do on the input alphabet Letters, Digits,        *)
(* Whitespace and the punctuation of the pieces below.                     *)
(*                                                                         *)
(* A character is a one-character string, a text is a sequence of          *)
(* characters.  The text of an Error token is its message: a sequence      *)
(* whose first element is the message string (followed, for "unrecognized  *)
(* token", by the characters of the offending lexeme).                     *)
(***************************************************************************)
EXTENDS Integers, Sequences, FiniteSets, TLC

VARIABLES
    scanner,    \* Lexer.scanner: the character cursor (with its source)
    braces,     \* Lexer.braces
    parens,     \* Lexer.parens
    Tokens,     \* Lexer.Tokens: [buf: the token of the pending send, closed]
    state,      \* run's local variable state: the next state function
    pc,         \* where the producer goroutine is: "run", "send", "done"
    tokens,     \* the consumer's slice of received tokens
    consumer,   \* where the consumer is: "range", "stopped", "done"
    closes,     \* how many times close(l.Tokens) has been executed
    other       \* a second lexer with its goroutine, channel and consumer:
                \* the same nine fields as a record (NoOther: there is none)

vars ==
    <<scanner, braces, parens, Tokens, state, pc, tokens, consumer, closes,
      other>>

-----------------------------------------------------------------------------
(* Bounds of the model and the inputs drawn from them.                      *)

MaxPieces == 2
MaxDelims == 4
MaxOps == 3
MaxLive == 2
MaxComments == 3
MaxPair == 2
MaxStop == 3

RECURSIVE Inputs(_, _)
Inputs(P, n) ==
    IF n = 0 THEN {<< >>}
    ELSE LET shorter == Inputs(P, n - 1)
         IN  shorter \cup {i \o p : i \in shorter, p \in P}

Words ==
    { <<"i","f">>, <<"f","o","r">>, <<"p","r","i","n","t">>,
      <<"w","h","i","l","e">>, <<"e","l","s","e">>, <<"x">>, <<"I","f">> }

Punct ==
    { <<"=">>, <<"<">>, <<">">>, <<"!">>, <<"&">>, <<"|">>,
      <<"*">>, <<"/">>, <<"+">>, <<"-">>,
      <<"{">>, <<"}">>, <<"(">>, <<")">>, <<"?">> }

Blanks == { <<" ">>, <<"\n">> }

Pieces == Words \cup Punct \cup Blanks \cup { <<"4">> }

DelimPieces == { <<"{">>, <<"}">>, <<"(">>, <<")">>, <<"x">>, <<" ">> }

OpPieces ==
    { <<"=">>, <<"<">>, <<">">>, <<"!">>, <<"&">>, <<"|">>, <<"?">>,
      <<"{">>, <<"}">>, <<"(">>, <<")">>, <<"x">>, <<" ">>, <<"\n">> }

\* Delimiters, an identifier, an operator and white space, for two lexers
\* on one input.
PairPieces ==
    { <<"{">>, <<"}">>, <<"(">>, <<")">>, <<"x">>, <<"=">>, <<" ">>, <<"\n">> }

\* Comments, the text around them and the characters they are made of.
CommentPieces ==
    { <<"/","*","x","*","/">>, <<"/","/","x">>, <<"\n">>, <<"/">>, <<"*">>,
      <<"x">>, <<"=">>, <<"{","(">>, <<")","}">> }

-----------------------------------------------------------------------------
(* Notation: F applied to the value of x.  The value is computed once and *)
(* then named, like a local variable that is assigned once and read often.*)

With(x, F(_)) == CHOOSE y \in {F(v) : v \in {x}} : TRUE

-----------------------------------------------------------------------------
(* text/scanner                                                             *)

EOFch == "EOF"          \* scanner.EOF, the rune -1
Unread == "unread"      \* the scanner's ch before the first read, -2

Letters ==
    { "a","b","c","d","e","f","g","h","i","j","k","l","m","n","o","p","q",
      "r","s","t","u","v","w","x","y","z","I" }

Digits == { "1","2","3","4","5","6","7","8","9" }

Whitespace == { "\t", "\n", "\r", " " }

isDecimal(ch) == ch \in Digits

isIdentRune(ch, i) == ch = "_" \/ ch \in Letters \/ (ch \in Digits /\ i > 0)

\* scanner.Init: nothing read yet, line 1, column 0, no token.
ScannerInit(src) ==
    [ srcBuf |-> src, srcPos |-> 0, ch |-> Unread,
      line |-> 1, column |-> 0, lastLineLen |-> 0, lastCharLen |-> 0,
      Line |-> 0, Column |-> 0, Offset |-> 0,
      tokPos |-> -1, tokEnd |-> -1 ]

\* Scanner.next: read one character into ch and keep line and column.
next(s) ==
    IF s.srcPos >= Len(s.srcBuf)
    THEN [s EXCEPT !.ch = EOFch,
                   !.column = IF s.lastCharLen > 0 THEN @ + 1 ELSE @,
                   !.lastCharLen = 0]
    ELSE LET c == s.srcBuf[s.srcPos + 1]
         IN  IF c = "\n"
             THEN [s EXCEPT !.ch = c, !.srcPos = @ + 1, !.lastCharLen = 1,
                            !.line = @ + 1, !.lastLineLen = s.column + 1,
                            !.column = 0]
             ELSE [s EXCEPT !.ch = c, !.srcPos = @ + 1, !.lastCharLen = 1,
                            !.column = @ + 1]

\* Scanner.Peek: the scanner after Peek; the rune Peek returns is its ch.
Peek(s) == IF s.ch = Unread THEN next(s) ELSE s

RECURSIVE skipWhitespace(_)
skipWhitespace(s0) ==
    With(s0, LAMBDA s :
        IF s.ch \in Whitespace THEN skipWhitespace(next(s)) ELSE s)

\* Scanner.scanIdentifier, after its first next(): the loop over i >= 1.
RECURSIVE scanIdentLoop(_)
scanIdentLoop(s0) ==
    With(s0, LAMBDA s :
        IF isIdentRune(s.ch, 1) THEN scanIdentLoop(next(s)) ELSE s)

scanIdentifier(s) == scanIdentLoop(next(s))

\* Scanner.digits for a decimal literal.
RECURSIVE digits(_)
digits(s0) ==
    With(s0, LAMBDA s :
        IF isDecimal(s.ch) \/ s.ch = "_" THEN digits(next(s)) ELSE s)

\* Scanner.scanNumber on a literal that starts with a digit 1..9: the
\* integer part, then an exponent (which makes the literal a Float).
scanSign(s) == IF s.ch \in {"+", "-"} THEN next(s) ELSE s

scanExponent(s0) ==
    With(s0, LAMBDA s :
        IF s.ch \in {"e", "E", "p", "P"}
        THEN [s |-> digits(scanSign(next(s))), tok |-> "Float"]
        ELSE [s |-> s, tok |-> "Int"])

scanNumber(s) == scanExponent(digits(s))

\* Scanner.scanComment, s.ch being the second character of the opener.
RECURSIVE lineComment(_)
lineComment(s0) ==
    With(s0, LAMBDA s :
        IF s.ch # "\n" /\ s.ch # EOFch THEN lineComment(next(s)) ELSE s)

RECURSIVE generalComment(_)
generalComment(s0) ==
    With(s0, LAMBDA s :
        IF s.ch = EOFch THEN s
        ELSE IF s.ch = "*" /\ next(s).ch = "/" THEN next(next(s))
             ELSE generalComment(next(s)))

scanComment(s) ==
    IF s.ch = "/" THEN lineComment(next(s)) ELSE generalComment(next(s))

\* The end of Scan: tokEnd, and the token it returns.
scanEnd(s0, tok) ==
    With(s0, LAMBDA s :
        [s |-> [s EXCEPT !.tokEnd = s.srcPos - s.lastCharLen], tok |-> tok])

scanEndNumber(r0) == With(r0, LAMBDA r : scanEnd(r.s, r.tok))

\* Scan: "start collecting token text" and "set token position".
startToken(s) ==
    [s EXCEPT !.tokPos = s.srcPos - s.lastCharLen,
              !.Offset = s.srcPos - s.lastCharLen,
              !.Line = IF s.column > 0 THEN s.line ELSE s.line - 1,
              !.Column = IF s.column > 0 THEN s.column ELSE s.lastLineLen]

RECURSIVE scanRedo(_)

\* A Scan that returns a comment as a token (ScanComments without
\* SkipComments) instead of skipping it.
scanSlashKeeping(s) ==
    IF s.ch \in {"/", "*"}
    THEN scanEnd(scanComment(s), "Comment")
    ELSE scanEnd(s, "/")

\* Scan: case '/', s.ch being the character after the slash.
scanSlash(s) ==
    IF s.ch \in {"/", "*"}
    THEN scanRedo(scanComment([s EXCEPT !.tokPos = -1]))
    ELSE scanEnd(s, "/")

\* Scan: "determine token value".
scanToken(s) ==
    CASE isIdentRune(s.ch, 0) -> scanEnd(scanIdentifier(s), "Ident")
      [] isDecimal(s.ch)      -> scanEndNumber(scanNumber(s))
      [] s.ch = EOFch         -> scanEnd(s, "EOF")
      [] s.ch = "/"           -> scanSlash(next(s))
      [] OTHER                -> scanEnd(next(s), s.ch)

\* Scanner.Scan from the label redo on.
scanRedo(s) ==
    With(skipWhitespace(s), LAMBDA s1 : scanToken(startToken(s1)))

\* Scanner.Scan: [s: the scanner afterwards, tok: the token it returns].
Scan(s) == scanRedo([Peek(s) EXCEPT !.tokPos = -1, !.Line = 0])

\* Scanner.TokenText.
TokenText(s) ==
    IF s.tokPos < 0 \/ s.tokEnd < s.tokPos THEN << >>
    ELSE SubSeq(s.srcBuf, s.tokPos + 1, s.tokEnd)

\* Scanner.Position: the start of the most recently scanned token.
Position(s) == [Line |-> s.Line, Column |-> s.Column, Offset |-> s.Offset]

-----------------------------------------------------------------------------
(* package lexer                                                            *)

\* var keywords: the spelling of each keyword and its Type.
keywords ==
    (<<"b","o","o","l">> :> "Bool") @@
    (<<"e","l","s","e">> :> "Else") @@
    (<<"f","a","l","s","e">> :> "False") @@
    (<<"i","f">> :> "If") @@
    (<<"i","n","t">> :> "Int") @@
    (<<"t","r","u","e">> :> "True") @@
    (<<"v","a","r">> :> "Var") @@
    (<<"w","h","i","l","e">> :> "While")

\* type Token.
Token(pos, text, typ) == [Pos |-> pos, Text |-> text, Type |-> typ]

\* A lexer l is [scanner, braces, parens].  A state function yields
\* [l: the lexer afterwards, out: the token it sends on l.Tokens (<< >> when
\* it sends none), next: the state function it returns].

\* Lexer.emit: the send of Token{pos, text, typ}.
emit(l, pos, text, typ) == [l |-> l, out |-> <<Token(pos, text, typ)>>]

\* An emitHere that reports positions from line 1, column 1 on.
emitHereFromOne(l, typ) ==
    emit(l,
         [Position(l.scanner) EXCEPT
             !.Line = IF @ = 0 THEN 1 ELSE @,
             !.Column = IF @ = 0 THEN 1 ELSE @],
         TokenText(l.scanner), typ)

\* Lexer.emitHere.
emitHere(l, typ) ==
    emit(l, Position(l.scanner), TokenText(l.scanner), typ)

\* An emitBoth that takes the position after the second Scan.
emitBothLate(l, s0, typ) ==
    With(s0, LAMBDA s2 :
        emit([l EXCEPT !.scanner = s2], Position(s2),
             TokenText(l.scanner) \o TokenText(s2), typ))

\* emitIfNext and expect, when r matches the next rune: the token starts
\* at the scanner's position before the second Scan (whose result is s2)
\* and its text is the text of both scans.
emitBoth(l, s0, typ) ==
    With(s0, LAMBDA s2 :
        emit([l EXCEPT !.scanner = s2], Position(l.scanner),
             TokenText(l.scanner) \o TokenText(s2), typ))

\* An emitIfNext that does not scan the second rune it matched.
emitIfNextNoScan(l, r, t1, t2) ==
    IF Peek(l.scanner).ch = r
    THEN emit(l, Position(l.scanner), TokenText(l.scanner) \o <<r>>, t1)
    ELSE emit(l, Position(l.scanner), TokenText(l.scanner), t2)

\* An expect that scans the next token before it reports the error.
expectSkipping(l, r, typ, err) ==
    IF Peek(l.scanner).ch = r
    THEN emitBoth(l, Scan(l.scanner).s, typ)
    ELSE With(Scan(l.scanner).s, LAMBDA s2 :
             emit([l EXCEPT !.scanner = s2], Position(l.scanner), <<err>>,
                  "Error"))

\* Lexer.emitIfNext.  (Peek after a Scan leaves the scanner as it is.)
emitIfNext(l, r, t1, t2) ==
    IF Peek(l.scanner).ch = r
    THEN emitBoth(l, Scan(l.scanner).s, t1)
    ELSE emit(l, Position(l.scanner), TokenText(l.scanner), t2)

\* Lexer.errorf.
errorf(l, msg) == emit(l, Position(l.scanner), msg, "Error")

\* Lexer.expect.
expect(l, r, typ, err) ==
    IF Peek(l.scanner).ch = r
    THEN emitBoth(l, Scan(l.scanner).s, typ)
    ELSE errorf(l, <<err>>)

\* "return st" after the send e (or after no send at all).
return(e, st) == [l |-> e.l, out |-> e.out, next |-> st]

noEmit(l) == [l |-> l, out |-> << >>]

\* A lexSource that sends EOF and then scans on.
lexEOFAgain(l) == return(emitHere(l, "EOF"), "lexSource")

\* A lexSource that sends nothing at the end of the input and scans on.
lexEOFSilent(l) == return(noEmit(l), "lexSource")

\* lexSource: case scanner.EOF.
lexEOF(l) == return(emitHere(l, "EOF"), "nil")

\* lexSource: the switch on the token tok that Scan returned.
lexToken(l, tok) ==
    CASE tok = "EOF"   -> lexEOF(l)
      [] tok = "Ident" -> return(noEmit(l), "lexIdent")
      [] tok = "Int"   -> return(emitHere(l, "Number"), "lexSource")
      [] tok = "*"     -> return(emitHere(l, "Multiply"), "lexSource")
      [] tok = "/"     -> return(emitHere(l, "Divide"), "lexSource")
      [] tok = "+"     -> return(emitHere(l, "Plus"), "lexSource")
      [] tok = "-"     -> return(emitHere(l, "Minus"), "lexSource")
      [] tok = "="     ->
            return(emitIfNext(l, "=", "Equal", "Assign"), "lexSource")
      [] tok = "<"     ->
            return(emitIfNext(l, "=", "LessOrEqual", "Less"), "lexSource")
      [] tok = ">"     ->
            return(emitIfNext(l, "=", "GreaterOrEqual", "Greater"),
                   "lexSource")
      [] tok = "!"     ->
            return(emitIfNext(l, "=", "NotEqual", "Not"), "lexSource")
      [] tok = "&"     ->
            return(expect(l, "&", "And", "expected && operator"),
                   "lexSource")
      [] tok = "|"     ->
            return(expect(l, "|", "Or", "expected || operator"),
                   "lexSource")
      [] tok = "{"     -> return(noEmit(l), "lexLeftBrace")
      [] tok = "}"     -> return(noEmit(l), "lexRightBrace")
      [] tok = "("     -> return(noEmit(l), "lexLeftParen")
      [] tok = ")"     -> return(noEmit(l), "lexRightParen")
      [] OTHER         ->
            return(errorf(l, <<"unrecognized token ">>
                                 \o TokenText(l.scanner)),
                   "lexSource")

scanned(l, r0) ==
    With(r0, LAMBDA r : lexToken([l EXCEPT !.scanner = r.s], r.tok))

\* func lexSource.
lexSource(l) == scanned(l, Scan(l.scanner))

\* func lexIdent.
lexIdent(l) ==
    LET text == TokenText(l.scanner)
        typ  == IF text \in DOMAIN keywords THEN keywords[text] ELSE "Ident"
    IN  return(emitHere(l, typ), "lexSource")

\* func lexLeftBrace.
lexLeftBrace(l) ==
    return(emitHere([l EXCEPT !.braces = @ + 1], "LeftBrace"), "lexSource")

\* A checkBraces that also rejects a "}" while a "(" is open.
checkBracesCrossed(l) ==
    IF l.braces < 0 \/ l.parens > 0
    THEN return(errorf(l, <<"unexpected }">>), "lexSource")
    ELSE return(emitHere(l, "RightBrace"), "lexSource")

\* lexRightBrace after l.braces--.
checkBraces(l) ==
    IF l.braces < 0
    THEN return(errorf(l, <<"unexpected }">>), "lexSource")
    ELSE return(emitHere(l, "RightBrace"), "lexSource")

\* func lexRightBrace.
lexRightBrace(l) == checkBraces([l EXCEPT !.braces = @ - 1])

\* A lexLeftParen copied from lexLeftBrace that still counts in braces.
lexLeftParenInBraces(l) ==
    return(emitHere([l EXCEPT !.braces = @ + 1], "LeftParen"), "lexSource")

\* func lexLeftParen.
lexLeftParen(l) ==
    return(emitHere([l EXCEPT !.parens = @ + 1], "LeftParen"), "lexSource")

\* lexRightParen after l.parens--.
checkParens(l) ==
    IF l.parens < 0
    THEN return(errorf(l, <<"unexpected )">>), "lexSource")
    ELSE return(emitHere(l, "RightParen"), "lexSource")

\* func lexRightParen.
lexRightParen(l) == checkParens([l EXCEPT !.parens = @ - 1])

\* The call state(l) of run's loop, by the name of the state function.
stateFn(st, l) ==
    CASE st = "lexSource"     -> lexSource(l)
      [] st = "lexIdent"      -> lexIdent(l)
      [] st = "lexLeftBrace"  -> lexLeftBrace(l)
      [] st = "lexRightBrace" -> lexRightBrace(l)
      [] st = "lexLeftParen"  -> lexLeftParen(l)
      [] st = "lexRightParen" -> lexRightParen(l)

\* func Lex: the lexer it returns, before its goroutine has taken a step.
Lex(src) == [scanner |-> ScannerInit(src), braces |-> 0, parens |-> 0]

\* run's loop from the state st on, executed without interruption: the
\* tokens it sends, in order.
RECURSIVE runFrom(_, _)
runNext(r0) == With(r0, LAMBDA r : r.out \o runFrom(r.next, r.l))

runFrom(st, l) == IF st = "nil" THEN << >> ELSE runNext(stateFn(st, l))

\* collect (lexer_test): every token of Lex(src), up to and with EOF.
collect(src) == runFrom("lexSource", Lex(src))

-----------------------------------------------------------------------------
(* The producer goroutine, the channel and the consumer.                    *)

lexer == [scanner |-> scanner, braces |-> braces, parens |-> parens]

\* An Outcome with a send that does not block (select with a default
\* case): a token that no consumer takes at once is dropped, and the
\* producer goes on.
OutcomeDropping(r) ==
    /\ scanner' = r.l.scanner
    /\ braces' = r.l.braces
    /\ parens' = r.l.parens
    /\ state' = r.next
    /\ pc' = "run"
    /\ UNCHANGED Tokens

\* An Outcome for a buffered channel: the send does not wait for the
\* consumer, and the producer goes on with the token still in the channel.
OutcomeBuffered(r) ==
    /\ scanner' = r.l.scanner
    /\ braces' = r.l.braces
    /\ parens' = r.l.parens
    /\ state' = r.next
    /\ pc' = "run"
    /\ Tokens' = [Tokens EXCEPT !.buf = @ \o r.out]

\* The producer after a state function with the outcome r: blocked in
\* its send on l.Tokens or, when it sends nothing, back in run's loop.
Outcome(r) ==
    /\ scanner' = r.l.scanner
    /\ braces' = r.l.braces
    /\ parens' = r.l.parens
    /\ state' = r.next
    /\ IF r.out = << >>
       THEN pc' = "run" /\ UNCHANGED Tokens
       ELSE pc' = "send" /\ Tokens' = [Tokens EXCEPT !.buf = r.out]

\* One iteration of run's loop, for each state function: it runs up to
\* its send on l.Tokens (where the goroutine blocks) or up to its return.
RunLexSource ==
    /\ pc = "run"
    /\ state = "lexSource"
    /\ \E r \in {lexSource(lexer)} : Outcome(r)
    /\ UNCHANGED <<tokens, consumer, closes, other>>

RunLexIdent ==
    /\ pc = "run"
    /\ state = "lexIdent"
    /\ \E r \in {lexIdent(lexer)} : Outcome(r)
    /\ UNCHANGED <<tokens, consumer, closes, other>>

RunLexLeftBrace ==
    /\ pc = "run"
    /\ state = "lexLeftBrace"
    /\ \E r \in {lexLeftBrace(lexer)} : Outcome(r)
    /\ UNCHANGED <<tokens, consumer, closes, other>>

RunLexRightBrace ==
    /\ pc = "run"
    /\ state = "lexRightBrace"
    /\ \E r \in {lexRightBrace(lexer)} : Outcome(r)
    /\ UNCHANGED <<tokens, consumer, closes, other>>

RunLexLeftParen ==
    /\ pc = "run"
    /\ state = "lexLeftParen"
    /\ \E r \in {lexLeftParen(lexer)} : Outcome(r)
    /\ UNCHANGED <<tokens, consumer, closes, other>>

RunLexRightParen ==
    /\ pc = "run"
    /\ state = "lexRightParen"
    /\ \E r \in {lexRightParen(lexer)} : Outcome(r)
    /\ UNCHANGED <<tokens, consumer, closes, other>>

\* A Receive that puts the token it takes in front of those it has.
ReceivePrepend ==
    /\ pc = "send"
    /\ consumer = "range"
    /\ tokens' = <<Tokens.buf[1]>> \o tokens
    /\ Tokens' = [Tokens EXCEPT !.buf = << >>]
    /\ pc' = "run"
    /\ UNCHANGED <<scanner, braces, parens, state, consumer, closes, other>>

\* The rendezvous on the unbuffered channel: the consumer's range loop
\* receives the token of the blocked send, and the producer goes on.
Receive ==
    /\ pc = "send"
    /\ consumer = "range"
    /\ tokens' = Append(tokens, Tokens.buf[1])
    /\ Tokens' = [Tokens EXCEPT !.buf = << >>]
    /\ pc' = "run"
    /\ UNCHANGED <<scanner, braces, parens, state, consumer, closes, other>>

\* run: the loop ends with state == nil, and close(l.Tokens).
Close ==
    /\ pc = "run"
    /\ state = "nil"
    /\ Tokens' = [Tokens EXCEPT !.closed = TRUE]
    /\ closes' = closes + 1
    /\ pc' = "done"
    /\ UNCHANGED <<scanner, braces, parens, state, tokens, consumer, other>>

\* The consumer's range loop ends on the closed channel.
ReceiveClosed ==
    /\ consumer = "range"
    /\ Tokens.closed
    /\ consumer' = "done"
    /\ UNCHANGED <<scanner, braces, parens, Tokens, state, pc, tokens, closes,
                   other>>

\* The consumer leaves its loop (as collect does after EOF) and receives
\* no more.
ConsumerStop ==
    /\ consumer = "range"
    /\ consumer' = "stopped"
    /\ UNCHANGED <<scanner, braces, parens, Tokens, state, pc, tokens, closes,
                   other>>

Producer ==
    \/ RunLexSource
    \/ RunLexIdent
    \/ RunLexLeftBrace
    \/ RunLexRightBrace
    \/ RunLexLeftParen
    \/ RunLexRightParen
    \/ Close

Next ==
    \/ Producer
    \/ Receive
    \/ ReceiveClosed
    \/ ConsumerStop

\* The value of other when Lex was called once only.
NoOther == [pc |-> "none"]

\* The state after Lex(filename, src) has returned, for the input src.
Started(src) ==
    /\ scanner = Lex(src).scanner
    /\ braces = Lex(src).braces
    /\ parens = Lex(src).parens
    /\ Tokens = [buf |-> << >>, closed |-> FALSE]
    /\ state = "lexSource"
    /\ pc = "run"
    /\ tokens = << >>
    /\ consumer = "range"
    /\ closes = 0

Init ==
    \E src \in Inputs(Pieces, MaxPieces) : Started(src) /\ other = NoOther

Spec == Init /\ [][Next]_vars

InitDelim ==
    \E src \in Inputs(DelimPieces, MaxDelims) : Started(src) /\ other = NoOther

SpecDelim == InitDelim /\ [][Next]_vars

InitOps ==
    \E src \in Inputs(OpPieces, MaxOps) : Started(src) /\ other = NoOther

SpecOps == InitOps /\ [][Next]_vars

InitLive ==
    \E src \in Inputs(Pieces, MaxLive) : Started(src) /\ other = NoOther

\* The runnable producer goroutine is scheduled, and a consumer that is
\* still in its range loop takes the token of a pending send.
SpecLive == InitLive /\ [][Next]_vars /\ WF_vars(Producer) /\ WF_vars(Receive)

InitComments ==
    \E src \in Inputs(CommentPieces, MaxComments) : Started(src) /\ other = NoOther

SpecComments == InitComments /\ [][Next]_vars

InitStop ==
    \E src \in Inputs(PairPieces, MaxStop) : Started(src) /\ other = NoOther

\* As SpecLive, on the inputs of InitStop.
SpecStop == InitStop /\ [][Next]_vars /\ WF_vars(Producer) /\ WF_vars(Receive)

-----------------------------------------------------------------------------
(* A second call of Lex on the same input: a second Lexer with its own      *)
(* scanner, counters, channel, goroutine and consumer.  The package has no  *)
(* variable but the map keywords, which is only read.                       *)

\* The record of a lexer that Lex(filename, src) has just returned, with
\* its consumer.
Instance(src) ==
    [ scanner |-> Lex(src).scanner, braces |-> Lex(src).braces,
      parens |-> Lex(src).parens,
      Tokens |-> [buf |-> << >>, closed |-> FALSE],
      state |-> "lexSource", pc |-> "run",
      tokens |-> << >>, consumer |-> "range", closes |-> 0 ]

\* A second lexer whose depth counters are the first one's (counters kept
\* in package-level variables instead of the Lexer).
otherLexerShared ==
    [scanner |-> other.scanner, braces |-> braces, parens |-> parens]

otherLexer ==
    [scanner |-> other.scanner, braces |-> other.braces,
     parens |-> other.parens]

\* Outcome, for the second lexer.
OtherOutcome(r) ==
    other' = [other EXCEPT !.scanner = r.l.scanner,
                           !.braces = r.l.braces,
                           !.parens = r.l.parens,
                           !.state = r.next,
                           !.pc = IF r.out = << >> THEN "run" ELSE "send",
                           !.Tokens.buf = IF r.out = << >> THEN @ ELSE r.out]

\* One iteration of the second lexer's run loop.
OtherRun ==
    /\ other.pc = "run"
    /\ other.state # "nil"
    /\ \E r \in {stateFn(other.state, otherLexer)} : OtherOutcome(r)
    /\ UNCHANGED <<scanner, braces, parens, Tokens, state, pc, tokens,
                   consumer, closes>>

\* Receive, for the second lexer and its consumer.
OtherReceive ==
    /\ other.pc = "send"
    /\ other.consumer = "range"
    /\ other' = [other EXCEPT !.tokens = Append(@, other.Tokens.buf[1]),
                              !.Tokens.buf = << >>,
                              !.pc = "run"]
    /\ UNCHANGED <<scanner, braces, parens, Tokens, state, pc, tokens,
                   consumer, closes>>

\* Close, for the second lexer.
OtherClose ==
    /\ other.pc = "run"
    /\ other.state = "nil"
    /\ other' = [other EXCEPT !.Tokens.closed = TRUE,
                              !.closes = @ + 1,
                              !.pc = "done"]
    /\ UNCHANGED <<scanner, braces, parens, Tokens, state, pc, tokens,
                   consumer, closes>>

\* ReceiveClosed, for the second consumer.
OtherReceiveClosed ==
    /\ other.pc # "none"
    /\ other.consumer = "range"
    /\ other.Tokens.closed
    /\ other' = [other EXCEPT !.consumer = "done"]
    /\ UNCHANGED <<scanner, braces, parens, Tokens, state, pc, tokens,
                   consumer, closes>>

\* ConsumerStop, for the second consumer.
OtherConsumerStop ==
    /\ other.pc # "none"
    /\ other.consumer = "range"
    /\ other' = [other EXCEPT !.consumer = "stopped"]
    /\ UNCHANGED <<scanner, braces, parens, Tokens, state, pc, tokens,
                   consumer, closes>>

\* The steps of two lexers, interleaved in any order: side by side, or
\* one after the other.
NextPair ==
    \/ Next
    \/ OtherRun
    \/ OtherReceive
    \/ OtherClose
    \/ OtherReceiveClosed
    \/ OtherConsumerStop

\* Lex was called twice on the input src.
InitPair ==
    \E src \in Inputs(PairPieces, MaxPair) :
        Started(src) /\ other = Instance(src)

SpecPair == InitPair /\ [][NextPair]_vars

-----------------------------------------------------------------------------
(* What the claims are stated over.                                         *)

\* The input of the scan.
src == scanner.srcBuf

\* Every token the producer has sent so far: those received, then the one
\* of the pending send.
sent == tokens \o Tokens.buf

\* Sequence s is an initial part of sequence t.
isPrefix(s, t) == Len(s) <= Len(t) /\ s = SubSeq(t, 1, Len(s))

\* The character of the input at which the lexeme of token t starts
\* ("EOF" past the end), and the one after it.
charAt(o) == IF o + 1 <= Len(src) THEN src[o + 1] ELSE EOFch

first(t) == charAt(t.Pos.Offset)

second(t) == charAt(t.Pos.Offset + 1)

-----------------------------------------------------------------------------
\* C1: the stream is closed at most once and only right after the EOF
\* token was handed over: when it is closed the last token received is
\* EOF and no send is pending, EOF occurs only as the last token sent, the
\* producer that has handed over EOF can only close, and the finished
\* producer has closed.
C1_Lifecycle ==
    /\ closes <= 1
    /\ Tokens.closed <=> closes = 1
    /\ pc = "done" <=> Tokens.closed
    /\ Tokens.closed =>
          /\ Tokens.buf = << >>
          /\ Len(tokens) > 0
          /\ tokens[Len(tokens)].Type = "EOF"
    /\ \A i \in 1..Len(sent) : sent[i].Type = "EOF" => i = Len(sent)
    /\ (pc = "run" /\ Len(tokens) > 0 /\ tokens[Len(tokens)].Type = "EOF")
          => state = "nil"
    /\ state = "nil" => (Len(sent) > 0 /\ sent[Len(sent)].Type = "EOF")

C1_Witness ==
    /\ Tokens.closed
    /\ Len(tokens) = 3
    /\ tokens[1].Type = "Error"
    /\ tokens[3].Type = "EOF"

\* C2: the depth counters are never negative.
C2_DepthNeverNegative == braces >= 0 /\ parens >= 0

\* C3: a closer that directly follows its opener is lexed as RightBrace
\* (RightParen), whatever came before the opener.
C3_CloserAfterOpener ==
    \A i \in 1..(Len(sent) - 1) :
        /\ (sent[i].Type = "LeftBrace" /\ first(sent[i + 1]) = "}")
              => sent[i + 1].Type = "RightBrace"
        /\ (sent[i].Type = "LeftParen" /\ first(sent[i + 1]) = ")")
              => sent[i + 1].Type = "RightParen"

\* The keyword table as the specification and the tests have it.
TableOfSpec ==
    (<<"b","o","o","l">> :> "Bool") @@
    (<<"e","l","s","e">> :> "Else") @@
    (<<"f","a","l","s","e">> :> "False") @@
    (<<"f","o","r">> :> "For") @@
    (<<"i","f">> :> "If") @@
    (<<"i","n","t">> :> "Int") @@
    (<<"t","r","u","e">> :> "True") @@
    (<<"v","a","r">> :> "Var")

\* C4: a token whose lexeme is an identifier has the kind of the keyword
\* table (with for -> For) when its spelling is in the table and the kind
\* Ident otherwise, and its text is the spelling.
C4_KeywordKinds ==
    \A i \in 1..Len(sent) :
        isIdentRune(first(sent[i]), 0) =>
            /\ sent[i].Text = SubSeq(src, sent[i].Pos.Offset + 1,
                                     sent[i].Pos.Offset + Len(sent[i].Text))
            /\ sent[i].Type = IF sent[i].Text \in DOMAIN TableOfSpec
                              THEN TableOfSpec[sent[i].Text]
                              ELSE "Ident"

\* The reserved words of the Readme.
Reserved ==
    { <<"b","o","o","l">>, <<"e","l","s","e">>, <<"f","a","l","s","e">>,
      <<"f","o","r">>, <<"i","f">>, <<"i","n","t">>,
      <<"p","r","i","n","t">>, <<"t","r","u","e">>, <<"v","a","r">> }

\* C5: no reserved word is emitted as a token of kind Ident.
C5_ReservedNeverIdent ==
    \A i \in 1..Len(sent) :
        sent[i].Type = "Ident" => sent[i].Text \notin Reserved

\* The line and the column of the character at offset o of the input,
\* counted from the input alone.
LineOf(o) == 1 + Cardinality({k \in 1..o : src[k] = "\n"})

ColumnOf(o) ==
    LET breaks == {k \in 1..o : src[k] = "\n"}
    IN  IF breaks = {} THEN o + 1
        ELSE o + 1 - (CHOOSE k \in breaks : \A j \in breaks : j <= k)

startsAtFirst(t) ==
    /\ t.Pos.Line = LineOf(t.Pos.Offset)
    /\ t.Pos.Column = ColumnOf(t.Pos.Offset)

\* The number of characters of the lexeme of token t.
lexemeLen(t) ==
    CASE t.Type # "Error" -> Len(t.Text)
      [] t.Text[1] = "unrecognized token " -> Len(t.Text) - 1
      [] OTHER -> 1

\* The input s with the n characters after offset o replaced by spaces.
blanked(s, o, n) ==
    [k \in 1..Len(s) |-> IF o < k /\ k <= o + n THEN " " ELSE s[k]]

without(s, i) == SubSeq(s, 1, i - 1) \o SubSeq(s, i + 1, Len(s))

typesAndTexts(s) == [k \in 1..Len(s) |-> <<s[k].Type, s[k].Text>>]

\* C6: every Error token of a finished scan stands at the first character
\* of its lexeme, the other tokens are those of the input with that lexeme
\* blanked out, the stream ends with EOF, and "& | } ) ?" yields its five
\* diagnostics and EOF.
C6_ErrorsLocal ==
    /\ Tokens.closed =>
          /\ tokens[Len(tokens)].Type = "EOF"
          /\ \A i \in 1..Len(tokens) :
                tokens[i].Type = "Error" =>
                   /\ startsAtFirst(tokens[i])
                   /\ collect(blanked(src, tokens[i].Pos.Offset,
                                      lexemeLen(tokens[i])))
                         = without(tokens, i)
    /\ typesAndTexts(collect(<<"&"," ","|"," ","}"," ",")"," ","?">>))
          = << <<"Error", <<"expected && operator">> >>,
               <<"Error", <<"expected || operator">> >>,
               <<"Error", <<"unexpected }">> >>,
               <<"Error", <<"unexpected )">> >>,
               <<"Error", <<"unrecognized token ", "?">> >>,
               <<"EOF", << >> >> >>

\* The two-character operators: spelling and kind.
TwoChar ==
    (<<"=","=">> :> "Equal") @@ (<<"<","=">> :> "LessOrEqual") @@
    (<<">","=">> :> "GreaterOrEqual") @@ (<<"!","=">> :> "NotEqual") @@
    (<<"&","&">> :> "And") @@ (<<"|","|">> :> "Or")

TwoCharKinds == {TwoChar[w] : w \in DOMAIN TwoChar}

\* C7: a token of a two-character operator kind has the operator's two
\* characters as its text, they are the two characters of the input at the
\* token's position, which is the line and column of the first of them; and
\* a lexeme that starts with the two characters of an operator is emitted
\* as that operator.
C7_TwoCharOperators ==
    \A i \in 1..Len(sent) :
        /\ sent[i].Type \in TwoCharKinds =>
              /\ sent[i].Text \in DOMAIN TwoChar
              /\ TwoChar[sent[i].Text] = sent[i].Type
              /\ sent[i].Text = <<first(sent[i]), second(sent[i])>>
              /\ startsAtFirst(sent[i])
        /\ <<first(sent[i]), second(sent[i])>> \in DOMAIN TwoChar =>
              sent[i].Type = TwoChar[<<first(sent[i]), second(sent[i])>>]

C7_Witness ==
    \E i \in 1..Len(tokens) :
        /\ tokens[i].Type = "GreaterOrEqual"
        /\ tokens[i].Pos.Line = 2
        /\ tokens[i].Pos.Column = 1

\* The character after the lexeme of sent[i] starts the next lexeme: when
\* it is neither white space nor a slash, the next token is at its offset.
nextStartsAfter(i) ==
    LET after == sent[i].Pos.Offset + lexemeLen(sent[i])
    IN  (i < Len(sent) /\ charAt(after) \notin Whitespace \cup {"/"})
            => sent[i + 1].Pos.Offset = after

OneChar ==
    ("=" :> "Assign") @@ ("<" :> "Less") @@ (">" :> "Greater") @@
    ("!" :> "Not")

C9_LoneAmpersandOrBar ==
    \A i \in 1..Len(sent) :
        /\ first(sent[i]) \in {"&", "|"} =>
              IF second(sent[i]) = first(sent[i])
              THEN /\ sent[i].Type = TwoChar[<<first(sent[i]), first(sent[i])>>]
                   /\ sent[i].Text = <<first(sent[i]), first(sent[i])>>
              ELSE /\ sent[i].Type = "Error"
                   /\ sent[i].Text =
                         IF first(sent[i]) = "&"
                         THEN <<"expected && operator">>
                         ELSE <<"expected || operator">>
                   /\ nextStartsAfter(i)
        /\ sent[i].Type \in {"And", "Or"} => Len(sent[i].Text) = 2

C9_Witness ==
    /\ src = <<"&", "|", "|">>
    /\ Len(tokens) = 3
    /\ tokens[1].Text = <<"expected && operator">>
    /\ tokens[2].Type = "Or"
    /\ tokens[2].Pos.Offset = 1

\* C10: when the consumer never stops receiving, the producer eventually
\* has handed over the EOF token and closed the stream.
C10_Terminates ==
    [](consumer # "stopped")
        => <>(Tokens.closed /\ tokens[Len(tokens)].Type = "EOF")

C10_Witness ==
    /\ Tokens.closed
    /\ consumer # "stopped"
    /\ Len(tokens) = 3
    /\ tokens[1].Type = "Error"
    /\ tokens[2].Type \notin {"Error", "EOF"}

-----------------------------------------------------------------------------
\* On the empty input: every token sent is an EOF token with empty text
\* at the given line and column, at most one token is sent, and the
\* closed stream has delivered exactly one.
EmptyInputYields(line, column) ==
    src = << >> =>
        /\ Len(sent) <= 1
        /\ \A i \in 1..Len(sent) :
              /\ sent[i].Type = "EOF"
              /\ sent[i].Text = << >>
              /\ sent[i].Pos.Line = line
              /\ sent[i].Pos.Column = column
        /\ Tokens.closed => Len(tokens) = 1
        /\ pc = "done" => Tokens.closed

\* C11 as stated: lexing the empty input yields exactly one token, of kind
\* EOF with zero-length text at line 1, column 1, and the stream is then
\* closed.
C11_EmptyInputAtOneOne == EmptyInputYields(1, 1)

\* C11, amended: lexing the empty input yields exactly one token, of kind
\* EOF with zero-length text at line 0, column 0 (the position of a
\* scanner that has read no character), and the stream is then closed.
C11_EmptyInput == EmptyInputYields(0, 0)

\* The empty input was lexed to the end: its token is received and the
\* stream is closed.
C11_Witness ==
    /\ src = << >>
    /\ Tokens.closed
    /\ Len(tokens) = 1
    /\ tokens[1].Type = "EOF"

-----------------------------------------------------------------------------
\* C12: scanning is deterministic and carries nothing from one scan to
\* another.  Of two lexers started on the same input, whatever the order
\* of the steps of the two producers and the two consumers (side by side,
\* or one scan after the other), the tokens one consumer has received are
\* an initial part of those the other has received or the other way
\* round, token for token equal in kind, text, line and column; so are
\* the tokens sent; and when both streams are closed both consumers have
\* the same sequence.
C12_Deterministic ==
    /\ isPrefix(tokens, other.tokens) \/ isPrefix(other.tokens, tokens)
    /\ \A a \in {sent} : \A b \in {other.tokens \o other.Tokens.buf} :
          /\ isPrefix(a, b) \/ isPrefix(b, a)
          /\ \A i \in 1..Len(a) :
                i <= Len(b) =>
                    /\ a[i].Type = b[i].Type
                    /\ a[i].Text = b[i].Text
                    /\ a[i].Pos.Line = b[i].Pos.Line
                    /\ a[i].Pos.Column = b[i].Pos.Column
    /\ Tokens.closed /\ other.Tokens.closed => tokens = other.tokens

\* Both lexers have finished an input with a lexeme on its second line,
\* and their consumers have the same tokens.
C12_Witness ==
    /\ Tokens.closed
    /\ other.Tokens.closed
    /\ Len(tokens) >= 2
    /\ tokens[1].Pos.Line = 2
    /\ tokens = other.tokens

-----------------------------------------------------------------------------
\* The comments of the text s from its k-th character on, as the language
\* defines them (Readme, Comments): "//" starts a line comment that ends
\* before the end of the line, "/*" starts a block comment that ends with
\* the first "*/" after it, and comments do not nest.  Each comment is
\* [from, to: its first and last character, by: what stands in for it];
\* a block comment that spans lines is skipped over and not listed, and
\* an opener "/*" without its closer starts no comment.
Min(S) == CHOOSE m \in S : \A n \in S : m <= n

RECURSIVE CommentsFrom(_, _)
CommentsFrom(s, k) ==
    IF k >= Len(s) THEN {}
    ELSE IF s[k] = "/" /\ s[k + 1] = "/"
    THEN LET e == Min({j \in k + 1..Len(s) :
                            j = Len(s) \/ s[j + 1] = "\n"})
         IN  {[from |-> k, to |-> e, by |-> "\n"]} \cup CommentsFrom(s, e + 1)
    ELSE IF s[k] = "/" /\ s[k + 1] = "*"
    THEN LET closers == {j \in k + 2..Len(s) - 1 :
                            s[j] = "*" /\ s[j + 1] = "/"}
         IN  IF closers = {} THEN {}
             ELSE LET j == Min(closers)
                  IN  (IF \E i \in k..j : s[i] = "\n" THEN {}
                       ELSE {[from |-> k, to |-> j + 1, by |-> " "]})
                      \cup CommentsFrom(s, j + 2)
    ELSE CommentsFrom(s, k + 1)

Comments(s) == CommentsFrom(s, 1)

\* The text s with the comment c replaced by what stands in for it.
uncommented(s, c) ==
    SubSeq(s, 1, c.from - 1) \o <<c.by>> \o SubSeq(s, c.to + 1, Len(s))

\* C13: comments are transparent to token sequencing.  For every comment
\* of the input (a block comment on one line, a line comment), the input
\* with the comment replaced by a space (block comment) or by a line break
\* (line comment) lexes to the same sequence of token kinds and texts, and
\* no token of the input starts inside a comment.
C13_CommentsTransparent ==
    Tokens.closed =>
        \A c \in Comments(src) :
            /\ typesAndTexts(tokens)
                  = typesAndTexts(collect(uncommented(src, c)))
            /\ \A i \in 1..Len(tokens) :
                  ~ (c.from <= tokens[i].Pos.Offset + 1
                        /\ tokens[i].Pos.Offset + 1 <= c.to)

\* An input with a block comment and a line comment around an identifier
\* was lexed to the end.
C13_Witness ==
    /\ Tokens.closed
    /\ \E c \in Comments(src) : c.by = " "
    /\ \E c \in Comments(src) : c.by = "\n"
    /\ \E i \in 1..Len(tokens) : tokens[i].Type = "Ident"

-----------------------------------------------------------------------------
\* C14: production is demand-driven.  The tokens the scan has constructed
\* are those received and at most one more, the token of the pending send;
\* a token is pending exactly while the producer is blocked in its send;
\* and in no step taken while a token is pending does the producer scan
\* on: the scanner, the depth counters and the state function stay as
\* they are until the consumer has taken the token.
C14_DemandDriven ==
    /\ [](/\ Len(Tokens.buf) <= 1
          /\ Len(sent) <= Len(tokens) + 1
          /\ (Tokens.buf # << >>) <=> (pc = "send"))
    /\ [][Tokens.buf # << >> =>
             /\ UNCHANGED <<scanner, braces, parens, state>>
             /\ \/ UNCHANGED <<Tokens, tokens, pc>>
                \/ /\ tokens' = Append(tokens, Tokens.buf[1])
                   /\ Tokens'.buf = << >>]_vars

\* The producer is blocked with a token pending although there is input
\* left to scan, and the consumer has received the tokens before it.
C14_Witness ==
    /\ pc = "send"
    /\ Tokens.buf # << >>
    /\ Len(tokens) >= 1
    /\ scanner.ch # EOFch

-----------------------------------------------------------------------------
\* C15: the producer goroutine and the channel refine the inline run of
\* the state machine.  Under every interleaving the tokens the consumer
\* has received, and those with the token of the pending send, are an
\* initial part of the token sequence of the uninterrupted run over the
\* same input (nothing lost, duplicated or reordered), and once the stream
\* is closed the consumer has received that whole sequence.
C15_RefinesInline ==
    \A inline \in {collect(src)} :
        /\ isPrefix(tokens, inline)
        /\ isPrefix(sent, inline)
        /\ Tokens.closed => tokens = inline

\* The stream is closed after an input of at least two lexemes, and the
\* consumer has all tokens of the uninterrupted run.
C15_Witness ==
    /\ Tokens.closed
    /\ Len(tokens) >= 3
    /\ tokens = collect(src)

-----------------------------------------------------------------------------
\* The consumer has left its loop without having received the EOF token.
abandoned ==
    /\ consumer = "stopped"
    /\ tokens = << >> \/ tokens[Len(tokens)].Type # "EOF"

\* C16: there is no cancellation.  Once the consumer has stopped before
\* it received the EOF token, this stays so, the producer never reaches
\* its end state and never closes the stream, a producer blocked in its
\* send stays blocked there with the same token pending, and the producer
\* does come to be blocked in a send and stays there for ever.
C16_NoCancellation ==
    /\ [](abandoned => ~ Tokens.closed /\ pc # "done" /\ closes = 0)
    /\ [][abandoned =>
             /\ abandoned'
             /\ pc = "send" => pc' = "send" /\ UNCHANGED Tokens]_vars
    /\ [](abandoned => <>[](pc = "send" /\ ~ Tokens.closed))

\* The consumer stopped after its first token, and the producer is blocked
\* with the next token, which is not yet the EOF token.
C16_Witness ==
    /\ abandoned
    /\ Len(tokens) >= 1
    /\ pc = "send"
    /\ Tokens.buf[1].Type # "EOF"

-----------------------------------------------------------------------------
\* C17: the brace counter changes only in a step on a lexeme "{" or "}" and
\* the paren counter only in a step on a lexeme "(" or ")".  A step that
\* changes braces is taken on "{" (by +1) or "}" (by -1) and leaves parens
\* unchanged, a step that changes parens is taken on "(" (by +1) or ")"
\* (by -1) and leaves braces unchanged; so the steps on every other lexeme
\* (identifier, keyword, number, operator, "&" or "|" alone, unrecognized
\* character, EOF) change neither.
C17_CountersFrame ==
    [][/\ braces' # braces =>
             /\ parens' = parens
             /\ \/ TokenText(scanner') = <<"{">> /\ braces' = braces + 1
                \/ TokenText(scanner') = <<"}">> /\ braces' = braces - 1
       /\ parens' # parens =>
             /\ braces' = braces
             /\ \/ TokenText(scanner') = <<"(">> /\ parens' = parens + 1
                \/ TokenText(scanner') = <<")">> /\ parens' = parens - 1
       /\ TokenText(scanner') \notin {<<"{">>, <<"}">>, <<"(">>, <<")">>}
             => braces' = braces /\ parens' = parens]_vars

\* A "{" and then an identifier were lexed to the end: the "{" was
\* counted, the identifier and EOF were not.
C17_Witness ==
    /\ Tokens.closed
    /\ braces = 1
    /\ parens = 0
    /\ Len(tokens) = 3
    /\ tokens[2].Type = "Ident"

-----------------------------------------------------------------------------
\* The number of characters c before offset o of the input.
countBefore(c, o) == Cardinality({k \in 1..o : src[k] = c})

\* The text s without its white space.
nonBlank(s) == SelectSeq(s, LAMBDA c : c \notin Whitespace)

types(s) == [k \in 1..Len(s) |-> s[k].Type]

\* C18: the depth counters only flag closers.  Of the tokens sent, the
\* one of a "{" is LeftBrace and the one of a "(" is LeftParen, never
\* Error; the one at the end of the input is EOF with empty text, whatever
\* the depths; each token starts after the one before it, so no token is
\* sent for an opener that is never closed; whether a "}" yields Error
\* depends on the "{" and "}" before it alone, and likewise ")" on "(" and
\* ")"; and the input { ( } ) yields LeftBrace, LeftParen, RightBrace,
\* RightParen, EOF.
C18_OnlyClosersFlagged ==
    /\ \A i \in 1..Len(sent) :
          /\ first(sent[i]) = "{" => sent[i].Type = "LeftBrace"
          /\ first(sent[i]) = "(" => sent[i].Type = "LeftParen"
          /\ first(sent[i]) = EOFch =>
                sent[i].Type = "EOF" /\ sent[i].Text = << >>
          /\ i > 1 => sent[i - 1].Pos.Offset < sent[i].Pos.Offset
          /\ first(sent[i]) = "}" =>
                (sent[i].Type = "Error"
                    <=> countBefore("{", sent[i].Pos.Offset)
                            <= countBefore("}", sent[i].Pos.Offset))
          /\ first(sent[i]) = ")" =>
                (sent[i].Type = "Error"
                    <=> countBefore("(", sent[i].Pos.Offset)
                            <= countBefore(")", sent[i].Pos.Offset))
    /\ Tokens.closed /\ nonBlank(src) = <<"{", "(", "}", ")">> =>
          types(tokens) = <<"LeftBrace", "LeftParen", "RightBrace",
                            "RightParen", "EOF">>
    /\ types(collect(<<"{", " ", "(", " ", "}", " ", ")">>))
          = <<"LeftBrace", "LeftParen", "RightBrace", "RightParen", "EOF">>

\* The input {(} was lexed to the end: the "}" closed the "{" across the
\* open "(", and EOF came at paren depth 1 without an Error token.
C18_Witness ==
    /\ Tokens.closed
    /\ nonBlank(src) = <<"{", "(", "}">>
    /\ parens = 1
    /\ types(tokens) = <<"LeftBrace", "LeftParen", "RightBrace", "EOF">>

=============================================================================
